---- MODULE Spec2Model ----
(***************************************************************************)
(* Configuration resolution pipeline of the todo API (getConfig).          *)
(*                                                                         *)
(* The repository holds three variants of the pipeline:                    *)
(*   "V1"  src/src/api/src/config/index.ts          (Key Vault, then App   *)
(*         Configuration, in every mode; no reference resolution)          *)
(*   "V2"  cosmos-mongo-account.bicep lines 22-142   (App Configuration    *)
(*         with Key Vault reference resolution, production only)           *)
(*   "V3"  cosmos-mongo-account.bicep lines 143-220  (App Configuration    *)
(*         provider load(), production only)                               *)
(*                                                                         *)
(* Strings are sequences of tokens, so that replace(/-/g,"_"), split("/")  *)
(* and JSON.parse are computed on their contents.  Settings and secrets    *)
(* carry string values (possibly empty).                                   *)
(***************************************************************************)
EXTENDS Naturals, Sequences, FiniteSets

VARIABLES
    variant,      \* which of the three getConfig implementations runs
    NODE_ENV,     \* process.env.NODE_ENV, read once on entry
    env,          \* process.env: function from the keys that are set to strings
    pc,           \* position of the async getConfig flow
    log,          \* logger output (set of level:subject entries)
    calls,        \* remote calls issued so far
    resolved,     \* <<>> until getConfig returns, then <<AppConfig>>
    env0,         \* history: process.env when getConfig was entered
    dotfile,      \* history: contents of the .env file dotenv.config() read
    envAtStep,    \* history: process.env when the current population step began
    stepEndpoint, \* history: endpoint the current population step read
    secretsSeen,  \* history: secrets enumerated and fetched, in order
    settingsSeen, \* history: settings enumerated and processed, in order
    written,      \* history: every process.env assignment by a remote source
    remoteFailed  \* history: a remote population step has thrown

vars == <<variant, NODE_ENV, env, pc, log, calls, resolved, env0, dotfile,
          envAtStep, stepEndpoint, secretsSeen, settingsSeen, written,
          remoteFailed>>

----------------------------------------------------------------------------
(* Bounds of the model *)

MaxSecrets == 2

MaxSettings == 2

----------------------------------------------------------------------------
(* Strings *)

EMPTY == <<>>

\* JavaScript undefined (an unset process.env entry, a missing array element)
UNDEF == <<"<undefined>">>

DQ == "DQ"

AZURE_KEY_VAULT_ENDPOINT == <<"AZURE", "_", "KEY", "_", "VAULT", "_", "ENDPOINT">>

AZURE_APPCONFIGURATION_ENDPOINT == <<"AZURE", "_", "APPCONFIGURATION", "_", "ENDPOINT">>

AZURE_COSMOS_CONNECTION_STRING == <<"AZURE", "_", "COSMOS", "_", "CONNECTION", "_", "STRING">>

APPLICATIONINSIGHTS_CONNECTION_STRING == <<"APPLICATIONINSIGHTS", "_", "CONNECTION", "_", "STRING">>

AZURE_COSMOS_DATABASE_NAME == <<"AZURE", "_", "COSMOS", "_", "DATABASE", "_", "NAME">>

APPLICATIONINSIGHTS_ROLE_NAME == <<"APPLICATIONINSIGHTS", "_", "ROLE", "_", "NAME">>

A_B == <<"A", "_", "B">>

\* !v : the only falsy strings are undefined and ""
Falsy(v) == v = UNDEF \/ v = EMPTY

\* v || ""
OrEmpty(v) == IF Falsy(v) THEN EMPTY ELSE v

\* process.env[k]
Get(e, k) == IF k \in DOMAIN e THEN e[k] ELSE UNDEF

\* process.env[k] = v
EnvSet(e, k, v) == [x \in (DOMAIN e) \cup {k} |-> IF x = k THEN v ELSE e[x]]

----------------------------------------------------------------------------
(* name.replace(/-/g, "_") *)

RECURSIVE ReplaceDashes(_)
ReplaceFirstDash(s) ==
    IF \E i \in 1..Len(s) : s[i] = "-"
    THEN LET i == CHOOSE j \in 1..Len(s) :
                      s[j] = "-" /\ \A h \in 1..(j - 1) : s[h] # "-"
         IN  [s EXCEPT ![i] = "_"]
    ELSE s

ReplaceDashes(s) ==
    IF s = <<>> THEN <<>>
    ELSE <<IF Head(s) = "-" THEN "_" ELSE Head(s)>> \o ReplaceDashes(Tail(s))

----------------------------------------------------------------------------
(* secretUri.split("/") *)

RECURSIVE SplitAcc(_, _, _)
SplitAcc(s, cur, acc) ==
    IF s = <<>> THEN Append(acc, cur)
    ELSE IF Head(s) = "/" THEN SplitAcc(Tail(s), <<>>, Append(acc, cur))
    ELSE SplitAcc(Tail(s), Append(cur, Head(s)), acc)

Split(s) == SplitAcc(s, <<>>, <<>>)

\* parts[i], zero-based; undefined past the end
Element(parts, i) == IF i + 1 <= Len(parts) THEN parts[i + 1] ELSE UNDEF

VaultIndex == 2

SecretIndex == 4

\* `https://${keyVaultName}` : undefined prints as "undefined"
EndpointUrl(host) ==
    <<"https:", "/", "/">> \o (IF host = UNDEF THEN <<"undefined">> ELSE host)

----------------------------------------------------------------------------
(* JSON.parse, on the token grammar the settings use *)

SyntaxError == [tag |-> "SyntaxError", member |-> "", type |-> "", str |-> <<>>]

IsStringLiteral(s) ==
    /\ Len(s) >= 2
    /\ s[1] = DQ
    /\ s[Len(s)] = DQ
    /\ \A i \in 2..(Len(s) - 1) : s[i] # DQ

StringBody(s) == SubSeq(s, 2, Len(s) - 1)

JSONParse(s) ==
    IF s = <<"null">> THEN [SyntaxError EXCEPT !.tag = "null"]
    ELSE IF s = <<"1">> THEN [SyntaxError EXCEPT !.tag = "number"]
    ELSE IF IsStringLiteral(s)
         THEN [SyntaxError EXCEPT !.tag = "string", !.str = StringBody(s)]
    ELSE IF s = <<"{", "}">> THEN [SyntaxError EXCEPT !.tag = "object"]
    ELSE IF /\ Len(s) >= 7
            /\ s[1] = "{" /\ s[2] = DQ /\ s[3] # DQ /\ s[4] = DQ /\ s[5] = ":"
            /\ s[Len(s)] = "}"
         THEN LET val == SubSeq(s, 6, Len(s) - 1)
              IN  IF val = <<"1">>
                  THEN [tag |-> "object", member |-> s[3], type |-> "number",
                        str |-> <<>>]
                  ELSE IF IsStringLiteral(val)
                  THEN [tag |-> "object", member |-> s[3], type |-> "string",
                        str |-> StringBody(val)]
                  ELSE SyntaxError
    ELSE SyntaxError

\* valueObject.uri
UriOf(obj) ==
    IF obj.tag = "object" /\ obj.member = "uri" /\ obj.type = "string"
    THEN obj.str ELSE UNDEF

\* typeof valueObject.uri === "string"
UriIsString(obj) ==
    obj.tag = "object" /\ obj.member = "uri" /\ obj.type = "string"

\* a parsed value used as a condition: null, 0 and "" are falsy
Truthy(obj) ==
    /\ obj.tag # "null"
    /\ ~(obj.tag = "string" /\ obj.str = <<>>)

IsKeyVaultReference(value) ==
    IF Falsy(value) THEN FALSE
    ELSE LET valueObject == JSONParse(value)
         IN  IF valueObject.tag = "SyntaxError" THEN FALSE
             ELSE Truthy(valueObject) /\ UriIsString(valueObject)

----------------------------------------------------------------------------
(* The remote stores, as the startup sees them *)

MyVaultUrl == <<"https:", "/", "/", "myvault">>

\* the secrets a vault holds: <<endpoint, name, current value>>
Vault ==
    { <<MyVaultUrl, <<"mysecret">>, <<"topsecret">> >>,
      <<MyVaultUrl, <<"secrets">>, <<"decoy">> >>,
      <<<<"https:", "/", "/", "secrets">>, <<"mysecret">>, <<"othervault">> >> }

HasSecret(endpoint, name) == \E t \in Vault : t[1] = endpoint /\ t[2] = name

SecretValue(endpoint, name) ==
    (CHOOSE t \in Vault : t[1] = endpoint /\ t[2] = name)[3]

RefJson(uri) == <<"{", DQ, "uri", DQ, ":", DQ>> \o uri \o <<DQ, "}">>

GoodUri == <<"https:", "/", "/", "myvault", "/", "secrets", "/", "mysecret">>

ShortUri == <<"https:", "/", "/", "myvault">>

NoCall == <<>>

\* secretUri.split("/") -> endpoint https://parts[2], secret name parts[4]
SecretRefWrongIndex(secretUri) ==
    LET parts == Split(secretUri)
    IN  [endpoint |-> EndpointUrl(Element(parts, VaultIndex)),
         name     |-> Element(parts, SecretIndex - 1)]

SecretRef(secretUri) ==
    LET parts == Split(secretUri)
    IN  [endpoint |-> EndpointUrl(Element(parts, VaultIndex)),
         name     |-> Element(parts, SecretIndex)]

Thrown(call) == [ok |-> FALSE, value |-> <<>>, call |-> call]

\* The outcomes of getSecretFromKeyVault(setting, credential): it throws before
\* any call, or issues secretClient.getSecret, which fails or returns the value.
GetSecretFromKeyVault(value) ==
    IF Falsy(value) THEN {Thrown(NoCall)}
    ELSE LET secretUriObject == JSONParse(value)
             secretUri == UriOf(secretUriObject)
         IN  IF secretUriObject.tag = "SyntaxError" \/ Falsy(secretUri)
             THEN {Thrown(NoCall)}
             ELSE LET ref  == SecretRef(secretUri)
                      call == <<"getSecret", ref.endpoint, ref.name>>
                  IN  {Thrown(call)} \cup
                      (IF HasSecret(ref.endpoint, ref.name)
                       THEN {[ok |-> TRUE,
                              value |-> SecretValue(ref.endpoint, ref.name),
                              call |-> call]}
                       ELSE {})

----------------------------------------------------------------------------
(* Inputs *)

MkEnv(pairs) ==
    [k \in {p[1] : p \in pairs} |-> (CHOOSE p \in pairs : p[1] = k)[2]]

EndpointChoices == {UNDEF, EMPTY, MyVaultUrl}

DataPresets ==
    { {},
      { <<A_B, <<"old">> >> },
      { <<AZURE_COSMOS_CONNECTION_STRING, <<"olddb">> >>,
        <<APPLICATIONINSIGHTS_CONNECTION_STRING, <<"oldai">> >> },
      { <<AZURE_COSMOS_CONNECTION_STRING, EMPTY>>,
        <<APPLICATIONINSIGHTS_CONNECTION_STRING, <<"oldai">> >>,
        <<A_B, <<"old">> >> } }

InitEnvs ==
    { MkEnv(data \cup
            (IF kv = UNDEF THEN {} ELSE { <<AZURE_KEY_VAULT_ENDPOINT, kv>> }) \cup
            (IF ac = UNDEF THEN {} ELSE { <<AZURE_APPCONFIGURATION_ENDPOINT, ac>> })) :
        kv \in EndpointChoices, ac \in EndpointChoices, data \in DataPresets }

\* parsed contents of the local .env file (no file: no keys)
DotFiles ==
    { MkEnv({}),
      MkEnv({ <<A_B, <<"file">> >> }),
      MkEnv({ <<A_B, <<"file">> >>,
              <<AZURE_COSMOS_CONNECTION_STRING, <<"filedb">> >>,
              <<AZURE_APPCONFIGURATION_ENDPOINT, MyVaultUrl>> }) }

SecretNames ==
    { <<"A", "-", "B">>, A_B,
      <<"AZURE", "-", "COSMOS", "-", "CONNECTION", "-", "STRING">> }

SecretValues == { <<"s1">>, <<"s2">> }

SettingKeys == { A_B, AZURE_COSMOS_CONNECTION_STRING }

\* values every key is listed with
CoreValues == { EMPTY, <<"c1">>, RefJson(GoodUri) }

\* values that exercise reference detection and resolution
ProbeValues ==
    { RefJson(EMPTY), RefJson(ShortUri), <<"{", "}">>, <<"{", DQ, "uri", DQ>>,
      <<"{", DQ, "uri", DQ, ":", "1", "}">>, <<"null">> }

\* the settings a listing may yield; V1 assigns every value alike, so the
\* probe values are listed only where references are looked for
SettingPool ==
    [key : SettingKeys, value : CoreValues] \cup
    (IF variant = "V2" THEN [key : {A_B}, value : ProbeValues] ELSE {})

\* what load() of the provider returns: a Map, so each key once, references
\* already resolved by the provider
LoadEntries == [key : SettingKeys, value : {EMPTY, <<"c1">>, <<"topsecret">>}]

LoadResults ==
    { m \in UNION { [1..n -> LoadEntries] : n \in 0..MaxSettings } :
        \A i, j \in 1..Len(m) : m[i].key = m[j].key => i = j }

----------------------------------------------------------------------------
(* getConfig *)

Init ==
    /\ variant \in {"V1", "V2", "V3"}
    /\ NODE_ENV \in {"production", "development"}
    /\ env \in InitEnvs
    /\ pc = "start"
    /\ log = {}
    /\ calls = {}
    /\ resolved = <<>>
    /\ env0 = env
    /\ dotfile = MkEnv({})
    /\ envAtStep = env
    /\ stepEndpoint = EMPTY
    /\ secretsSeen = <<>>
    /\ settingsSeen = <<>>
    /\ written = <<>>
    /\ remoteFailed = FALSE

\* dotenv.config(): keys of the file that process.env lacks are added
DotenvOverride(e, file) ==
    [k \in (DOMAIN e) \cup (DOMAIN file) |->
        IF k \in DOMAIN file THEN file[k] ELSE e[k]]

DotenvConfig(e, file) ==
    [k \in (DOMAIN e) \cup (DOMAIN file) |->
        IF k \in DOMAIN e THEN e[k] ELSE file[k]]

\* the order of the awaited population steps in getConfig
NextStepSwapped(v, nodeEnv, step) ==
    IF v = "V1"
    THEN CASE step = "start"     -> "appconfig"
           [] step = "appconfig" -> "kv"
           [] OTHER              -> "populated"
    ELSE CASE step = "start" ->
                  IF nodeEnv = "production" THEN "appconfig" ELSE "populated"
           [] OTHER -> "populated"

NextStep(v, nodeEnv, step) ==
    IF v = "V1"
    THEN CASE step = "start" -> "kv"
           [] step = "kv"    -> "appconfig"
           [] OTHER          -> "populated"
    ELSE CASE step = "start" ->
                  IF nodeEnv = "production" THEN "appconfig" ELSE "populated"
           [] OTHER -> "populated"

\* catch (err) { logger.error(...); throw err; } : where the flow goes
CatchSwallow(step) == NextStep(variant, NODE_ENV, step)

Catch(step) == "rejected"

\* process.env as the catch block leaves it
EnvRolledBack(now, before) == before

EnvOnError(now, before) == now

\* if (!endpoint)
EndpointNotSetStrict(endpoint) == endpoint = UNDEF

EndpointNotSet(endpoint) == Falsy(endpoint)

GetConfigStart ==
    /\ pc = "start"
    /\ IF NODE_ENV # "production"
       THEN \E file \in DotFiles :
                /\ env' = DotenvConfig(env, file)
                /\ dotfile' = file
       ELSE UNCHANGED <<env, dotfile>>
    /\ log' = IF variant = "V1" THEN log ELSE log \cup {"info:Loading configuration"}
    /\ pc' = NextStep(variant, NODE_ENV, "start")
    /\ UNCHANGED <<variant, NODE_ENV, calls, resolved, env0, envAtStep,
                   stepEndpoint, secretsSeen, settingsSeen, written, remoteFailed>>

----------------------------------------------------------------------------
(* populateEnvironmentFromKeyVault *)

KeyVaultUnset ==
    /\ pc = "kv"
    /\ EndpointNotSet(OrEmpty(Get(env, AZURE_KEY_VAULT_ENDPOINT)))
    /\ log' = log \cup {"warn:AZURE_KEY_VAULT_ENDPOINT"}
    /\ pc' = NextStep(variant, NODE_ENV, "kv")
    /\ envAtStep' = env
    /\ stepEndpoint' = EMPTY
    /\ UNCHANGED <<variant, NODE_ENV, env, calls, resolved, env0, dotfile,
                   secretsSeen, settingsSeen, written, remoteFailed>>

KeyVaultBegin ==
    /\ pc = "kv"
    /\ ~EndpointNotSet(OrEmpty(Get(env, AZURE_KEY_VAULT_ENDPOINT)))
    /\ log' = log \cup {"info:KeyVault"}
    /\ pc' = "kv_loop"
    /\ envAtStep' = env
    /\ stepEndpoint' = OrEmpty(Get(env, AZURE_KEY_VAULT_ENDPOINT))
    /\ UNCHANGED <<variant, NODE_ENV, env, calls, resolved, env0, dotfile,
                   secretsSeen, settingsSeen, written, remoteFailed>>

ListSecretsCall == <<"listPropertiesOfSecrets", stepEndpoint, <<>> >>

\* one iteration of the for-await loop: the next secret is listed, fetched and
\* assigned
KeyVaultNext ==
    /\ pc = "kv_loop"
    /\ Len(secretsSeen) < MaxSecrets
    /\ \E name \in SecretNames, value \in SecretValues :
        /\ \A i \in 1..Len(secretsSeen) : secretsSeen[i].name # name
        /\ LET keyName == ReplaceDashes(name)
           IN  /\ env' = EnvSet(env, keyName, value)
               /\ written' = Append(written,
                                    [src |-> "kv", key |-> keyName, value |-> value])
        /\ secretsSeen' = Append(secretsSeen, [name |-> name, value |-> value])
        /\ calls' = calls \cup {ListSecretsCall, <<"getSecret", stepEndpoint, name>>}
    /\ UNCHANGED <<variant, NODE_ENV, pc, log, resolved, env0, dotfile, envAtStep,
                   stepEndpoint, settingsSeen, remoteFailed>>

KeyVaultDone ==
    /\ pc = "kv_loop"
    /\ calls' = calls \cup {ListSecretsCall}
    /\ pc' = NextStep(variant, NODE_ENV, "kv")
    /\ UNCHANGED <<variant, NODE_ENV, env, log, resolved, env0, dotfile, envAtStep,
                   stepEndpoint, secretsSeen, settingsSeen, written, remoteFailed>>

\* the listing, or the getSecret of the next listed secret, throws
KeyVaultError ==
    /\ pc = "kv_loop"
    /\ \/ calls' = calls \cup {ListSecretsCall}
       \/ \E name \in SecretNames :
            /\ \A i \in 1..Len(secretsSeen) : secretsSeen[i].name # name
            /\ calls' = calls \cup {ListSecretsCall,
                                    <<"getSecret", stepEndpoint, name>>}
    /\ log' = log \cup {"error:KeyVault"}
    /\ env' = EnvOnError(env, envAtStep)
    /\ remoteFailed' = TRUE
    /\ pc' = Catch("kv")
    /\ UNCHANGED <<variant, NODE_ENV, resolved, env0, dotfile, envAtStep,
                   stepEndpoint, secretsSeen, settingsSeen, written>>

----------------------------------------------------------------------------
(* populateEnvironmentFromAppConfig *)

AppConfigUnset ==
    /\ pc = "appconfig"
    /\ EndpointNotSet(OrEmpty(Get(env, AZURE_APPCONFIGURATION_ENDPOINT)))
    /\ log' = log \cup {"warn:AZURE_APPCONFIGURATION_ENDPOINT"}
    /\ pc' = NextStep(variant, NODE_ENV, "appconfig")
    /\ envAtStep' = env
    /\ stepEndpoint' = EMPTY
    /\ UNCHANGED <<variant, NODE_ENV, env, calls, resolved, env0, dotfile,
                   secretsSeen, settingsSeen, written, remoteFailed>>

AppConfigBegin ==
    /\ pc = "appconfig"
    /\ ~EndpointNotSet(OrEmpty(Get(env, AZURE_APPCONFIGURATION_ENDPOINT)))
    /\ log' = log \cup {"info:AppConfiguration"}
    /\ pc' = IF variant = "V3" THEN "ac_load" ELSE "ac_loop"
    /\ envAtStep' = env
    /\ stepEndpoint' = OrEmpty(Get(env, AZURE_APPCONFIGURATION_ENDPOINT))
    /\ UNCHANGED <<variant, NODE_ENV, env, calls, resolved, env0, dotfile,
                   secretsSeen, settingsSeen, written, remoteFailed>>

ListSettingsCall == <<"listConfigurationSettings", stepEndpoint, <<>> >>

LoadCall == <<"load", stepEndpoint, <<>> >>

AcWrite(key, value) == [src |-> "ac", key |-> key, value |-> value]

\* one iteration of the for-await loop over the settings
AppConfigNext ==
    /\ pc = "ac_loop"
    /\ Len(settingsSeen) < MaxSettings
    /\ \E setting \in SettingPool :
        /\ settingsSeen' = Append(settingsSeen, setting)
        /\ IF variant = "V1"
           THEN /\ env' = EnvSet(env, setting.key, setting.value)
                /\ written' = Append(written, AcWrite(setting.key, setting.value))
                /\ calls' = calls \cup {ListSettingsCall}
           ELSE IF ~Falsy(setting.value) /\ IsKeyVaultReference(setting.value)
           THEN \E got \in GetSecretFromKeyVault(setting.value) :
                    /\ got.ok
                    /\ env' = EnvSet(env, setting.key, got.value)
                    /\ written' = Append(written, AcWrite(setting.key, got.value))
                    /\ calls' = calls \cup {ListSettingsCall, got.call}
           ELSE IF ~Falsy(setting.value)
           THEN /\ env' = EnvSet(env, setting.key, setting.value)
                /\ written' = Append(written, AcWrite(setting.key, setting.value))
                /\ calls' = calls \cup {ListSettingsCall}
           ELSE /\ calls' = calls \cup {ListSettingsCall}
                /\ UNCHANGED <<env, written>>
    /\ UNCHANGED <<variant, NODE_ENV, pc, log, resolved, env0, dotfile, envAtStep,
                   stepEndpoint, secretsSeen, remoteFailed>>

AppConfigDone ==
    /\ pc = "ac_loop"
    /\ calls' = calls \cup {ListSettingsCall}
    /\ pc' = NextStep(variant, NODE_ENV, "appconfig")
    /\ UNCHANGED <<variant, NODE_ENV, env, log, resolved, env0, dotfile, envAtStep,
                   stepEndpoint, secretsSeen, settingsSeen, written, remoteFailed>>

RECURSIVE WriteAll(_, _)
WriteAll(e, settings) ==
    IF settings = <<>> THEN e
    ELSE WriteAll(EnvSet(e, Head(settings).key, Head(settings).value),
                  Tail(settings))

\* await load(endpoint, credential, ...) returned; the Map is copied over
AppConfigLoad ==
    /\ pc = "ac_load"
    /\ \E settings \in LoadResults :
        /\ env' = WriteAll(env, settings)
        /\ settingsSeen' = settings
        /\ written' = written \o
               [i \in 1..Len(settings) |->
                   AcWrite(settings[i].key, settings[i].value)]
        /\ log' = IF settings = <<>> THEN log
                  ELSE log \cup {"info:Setting read from app config"}
    /\ calls' = calls \cup {LoadCall}
    /\ pc' = NextStep(variant, NODE_ENV, "appconfig")
    /\ UNCHANGED <<variant, NODE_ENV, resolved, env0, dotfile, envAtStep,
                   stepEndpoint, secretsSeen, remoteFailed>>

\* the listing or load() throws, or resolving the next setting's reference does
AppConfigError ==
    /\ \/ /\ pc = "ac_loop"
          /\ calls' = calls \cup {ListSettingsCall}
       \/ /\ pc = "ac_load"
          /\ calls' = calls \cup {LoadCall}
       \/ /\ pc = "ac_loop"
          /\ variant = "V2"
          /\ \E setting \in SettingPool :
                /\ ~Falsy(setting.value) /\ IsKeyVaultReference(setting.value)
                /\ \E got \in GetSecretFromKeyVault(setting.value) :
                      /\ ~got.ok
                      /\ calls' = calls \cup {ListSettingsCall} \cup
                              (IF got.call = NoCall THEN {} ELSE {got.call})
    /\ log' = log \cup {"error:AppConfiguration"}
    /\ env' = EnvOnError(env, envAtStep)
    /\ remoteFailed' = TRUE
    /\ pc' = Catch("appconfig")
    /\ UNCHANGED <<variant, NODE_ENV, resolved, env0, dotfile, envAtStep,
                   stepEndpoint, secretsSeen, settingsSeen, written>>

----------------------------------------------------------------------------
(* Typed extraction: config.get and the returned AppConfig *)

\* config.get<...>(section): the section as the schema maps it from process.env
ConfigGet(e, section) ==
    IF section = "database"
    THEN [connectionString |-> Get(e, AZURE_COSMOS_CONNECTION_STRING),
          name |-> Get(e, AZURE_COSMOS_DATABASE_NAME)]
    ELSE [connectionString |-> Get(e, APPLICATIONINSIGHTS_CONNECTION_STRING),
          name |-> Get(e, APPLICATIONINSIGHTS_ROLE_NAME)]

MissingWarningsCopied(databaseConfig, observabilityConfig) ==
    (IF Falsy(databaseConfig.connectionString)
     THEN {"warn:AZURE_COSMOS_CONNECTION_STRING"} ELSE {}) \cup
    (IF Falsy(databaseConfig.connectionString)
     THEN {"warn:APPLICATIONINSIGHTS_CONNECTION_STRING"} ELSE {})

MissingWarnings(databaseConfig, observabilityConfig) ==
    (IF Falsy(databaseConfig.connectionString)
     THEN {"warn:AZURE_COSMOS_CONNECTION_STRING"} ELSE {}) \cup
    (IF Falsy(observabilityConfig.connectionString)
     THEN {"warn:APPLICATIONINSIGHTS_CONNECTION_STRING"} ELSE {})

AppConfigOf(databaseConfig, observabilityConfig) ==
    [observability |-> [connectionString |-> observabilityConfig.connectionString,
                        roleName |-> observabilityConfig.name],
     database |-> [connectionString |-> databaseConfig.connectionString,
                   databaseName |-> databaseConfig.name]]

Extract ==
    /\ pc = "populated"
    /\ LET databaseConfig == ConfigGet(env, "database")
           observabilityConfig == ConfigGet(env, "observability")
       IN  /\ log' = log \cup MissingWarnings(databaseConfig, observabilityConfig)
           /\ resolved' = <<AppConfigOf(databaseConfig, observabilityConfig)>>
    /\ pc' = "extracted"
    /\ UNCHANGED <<variant, NODE_ENV, env, calls, env0, dotfile, envAtStep,
                   stepEndpoint, secretsSeen, settingsSeen, written, remoteFailed>>

----------------------------------------------------------------------------

Next ==
    \/ GetConfigStart
    \/ KeyVaultUnset
    \/ KeyVaultBegin
    \/ KeyVaultNext
    \/ KeyVaultDone
    \/ KeyVaultError
    \/ AppConfigUnset
    \/ AppConfigBegin
    \/ AppConfigNext
    \/ AppConfigDone
    \/ AppConfigLoad
    \/ AppConfigError
    \/ Extract

Spec == Init /\ [][Next]_vars

----------------------------------------------------------------------------
(* Vocabulary of the properties, stated without the operators of the code *)

\* key is name with every "-" replaced by "_"
IsNormalizedName(name, key) ==
    /\ Len(key) = Len(name)
    /\ \A i \in 1..Len(name) : key[i] = (IF name[i] = "-" THEN "_" ELSE name[i])

SlashPositions(s) == {i \in 1..Len(s) : s[i] = "/"}

\* position of the n-th "/" of s; 0 for n = 0, Len(s) + 1 when there is none
NthSlash(s, n) ==
    IF n = 0 THEN 0
    ELSE IF \E p \in SlashPositions(s) :
                Cardinality({q \in SlashPositions(s) : q < p}) = n - 1
    THEN CHOOSE p \in SlashPositions(s) :
                Cardinality({q \in SlashPositions(s) : q < p}) = n - 1
    ELSE Len(s) + 1

\* element n (zero-based) of s split on "/"
SegmentOf(s, n) == SubSeq(s, NthSlash(s, n) + 1, NthSlash(s, n + 1) - 1)

\* the value parses as a JSON object with a string uri field
IsReferenceValue(value) ==
    LET o == JSONParse(value)
    IN  o.tag = "object" /\ o.member = "uri" /\ o.type = "string"

\* the value is not valid JSON, or is JSON without a uri field
IsNotReferenceValue(value) ==
    LET o == JSONParse(value)
    IN  o.tag = "SyntaxError" \/ o.member # "uri"

ReferencedEndpoint(value) ==
    <<"https:", "/", "/">> \o SegmentOf(JSONParse(value).str, 2)

ReferencedName(value) == SegmentOf(JSONParse(value).str, 4)

\* the store's value of a setting: the secret's value for a reference
StoreValue(value) ==
    IF IsReferenceValue(value)
       /\ \E t \in Vault : t[1] = ReferencedEndpoint(value)
                           /\ t[2] = ReferencedName(value)
    THEN (CHOOSE t \in Vault : t[1] = ReferencedEndpoint(value)
                               /\ t[2] = ReferencedName(value))[3]
    ELSE value

IsLastForKey(seq, j) == \A h \in (j + 1)..Len(seq) : seq[h].key # seq[j].key

WritesOf(src) == SelectSeq(written, LAMBDA w : w.src = src)

PopulationCompleted == pc \in {"populated", "extracted"}

----------------------------------------------------------------------------
(* C1: in production mode, with the config-store endpoint set and no remote   *)
(* failure, after populateEnvironmentFromAppConfig every setting the store    *)
(* returned has its key set to the store's value (the secret's value for a    *)
(* reference), whatever the key held before.                                  *)
C1_StoreValueWins ==
    (/\ NODE_ENV = "production"
     /\ PopulationCompleted
     /\ ~remoteFailed
     /\ stepEndpoint # EMPTY)
    => \A j \in 1..Len(settingsSeen) :
          IsLastForKey(settingsSeen, j)
          => Get(env, settingsSeen[j].key) = StoreValue(settingsSeen[j].value)

----------------------------------------------------------------------------
(* C2 as stated: outside production, every key present both in the initial    *)
(* process environment and in the .env file still holds its initial value     *)
(* when the source-population phase is over.                                  *)
C2_PresetKeptThroughPopulation ==
    (NODE_ENV # "production" /\ PopulationCompleted)
    => \A k \in (DOMAIN env0) \cap (DOMAIN dotfile) : Get(env, k) = env0[k]

(* C2 amended: outside production the .env file never overwrites a key the    *)
(* process environment already had: such a key holds its initial value after  *)
(* dotenv.config() and keeps it unless a remote source (index.ts populates    *)
(* from Key Vault and App Configuration in every mode) assigns that key.      *)
C2_FileNeverOverwritesPreset ==
    (NODE_ENV # "production" /\ pc # "start")
    => \A k \in (DOMAIN env0) \cap (DOMAIN dotfile) :
          \/ Get(env, k) = env0[k]
          \/ \E i \in 1..Len(written) : written[i].key = k

C2_Witness ==
    /\ NODE_ENV # "production"
    /\ PopulationCompleted
    /\ written = <<>>
    /\ A_B \in (DOMAIN env0) \cap (DOMAIN dotfile)
    /\ dotfile[A_B] # env0[A_B]
    /\ env[A_B] = env0[A_B]

----------------------------------------------------------------------------
(* C3: once a call against a configured remote source has failed, the error   *)
(* is logged, getConfig is rejected and the extraction is never executed.     *)
C3_NoExtractionAfterRemoteFailure ==
    remoteFailed
    => /\ pc = "rejected"
       /\ resolved = <<>>
       /\ stepEndpoint # EMPTY
       /\ ("error:KeyVault" \in log \/ "error:AppConfiguration" \in log)
       /\ "warn:AZURE_COSMOS_CONNECTION_STRING" \notin log
       /\ "warn:APPLICATIONINSIGHTS_CONNECTION_STRING" \notin log

C3_Witness ==
    /\ remoteFailed
    /\ pc = "rejected"
    /\ "error:KeyVault" \in log
    /\ Len(secretsSeen) = 1

----------------------------------------------------------------------------
----------------------------------------------------------------------------
(* C5: a population step whose endpoint variable is unset or empty logs the   *)
(* warning, issues no remote call, leaves process.env as it is, does not      *)
(* raise, and hands over to the rest of the startup; once the sources are     *)
(* populated the extraction can run.                                          *)
IsUnsetOrEmpty(e, k) == k \notin DOMAIN e \/ e[k] = <<>>

C5_UnsetEndpointIsNoOp ==
    /\ [][ (pc = "kv" /\ IsUnsetOrEmpty(env, AZURE_KEY_VAULT_ENDPOINT))
           => /\ env' = env
              /\ calls' = calls
              /\ "warn:AZURE_KEY_VAULT_ENDPOINT" \in log'
              /\ ~remoteFailed'
              /\ pc' = "appconfig"
         ]_vars
    /\ [][ (pc = "appconfig" /\ IsUnsetOrEmpty(env, AZURE_APPCONFIGURATION_ENDPOINT))
           => /\ env' = env
              /\ calls' = calls
              /\ "warn:AZURE_APPCONFIGURATION_ENDPOINT" \in log'
              /\ ~remoteFailed'
              /\ pc' = "populated"
         ]_vars
    /\ [](pc = "populated" => ENABLED Extract)

C5_Witness ==
    /\ pc = "extracted"
    /\ variant = "V1"
    /\ AZURE_KEY_VAULT_ENDPOINT \in DOMAIN env0
    /\ env0[AZURE_KEY_VAULT_ENDPOINT] = EMPTY
    /\ AZURE_APPCONFIGURATION_ENDPOINT \notin DOMAIN env
    /\ "warn:AZURE_KEY_VAULT_ENDPOINT" \in log
    /\ "warn:AZURE_APPCONFIGURATION_ENDPOINT" \in log
    /\ calls = {}
    /\ env = env0

----------------------------------------------------------------------------
(* C6: the extraction never raises: whatever process.env holds it returns an  *)
(* AppConfig with the database and observability parts, hands an empty        *)
(* connection string through as it is, and logs the warning that names        *)
(* AZURE_COSMOS_CONNECTION_STRING (APPLICATIONINSIGHTS_CONNECTION_STRING)     *)
(* exactly when that connection string is empty or absent.                    *)
C6_ExtractionIsSoft ==
    /\ pc = "populated" => ENABLED Extract
    /\ pc = "extracted"
       => /\ Len(resolved) = 1
          /\ DOMAIN resolved[1] = {"database", "observability"}
          /\ resolved[1].database.connectionString
                 = Get(env, AZURE_COSMOS_CONNECTION_STRING)
          /\ resolved[1].observability.connectionString
                 = Get(env, APPLICATIONINSIGHTS_CONNECTION_STRING)
          /\ "warn:AZURE_COSMOS_CONNECTION_STRING" \in log
                 <=> IsUnsetOrEmpty(env, AZURE_COSMOS_CONNECTION_STRING)
          /\ "warn:APPLICATIONINSIGHTS_CONNECTION_STRING" \in log
                 <=> IsUnsetOrEmpty(env, APPLICATIONINSIGHTS_CONNECTION_STRING)

C6_Witness ==
    /\ pc = "extracted"
    /\ AZURE_COSMOS_CONNECTION_STRING \in DOMAIN env
    /\ env[AZURE_COSMOS_CONNECTION_STRING] = EMPTY
    /\ resolved[1].database.connectionString = EMPTY
    /\ resolved[1].observability.connectionString = <<"oldai">>
    /\ "warn:AZURE_COSMOS_CONNECTION_STRING" \in log
    /\ "warn:APPLICATIONINSIGHTS_CONNECTION_STRING" \notin log

----------------------------------------------------------------------------
(* C7: every enumerated secret is assigned under its name with every "-"      *)
(* replaced by "_", with the secret's value; secrets that normalize to the    *)
(* same key do not make the population fail, and the key ends with the value  *)
(* of the secret enumerated last.                                             *)
SameNormalizedName(a, b) ==
    /\ Len(a) = Len(b)
    /\ \A i \in 1..Len(a) :
          (IF a[i] = "-" THEN "_" ELSE a[i]) = (IF b[i] = "-" THEN "_" ELSE b[i])

C7_SecretNamesNormalized ==
    LET kv == WritesOf("kv")
    IN  /\ Len(kv) = Len(secretsSeen)
        /\ \A i \in 1..Len(secretsSeen) :
              /\ IsNormalizedName(secretsSeen[i].name, kv[i].key)
              /\ kv[i].value = secretsSeen[i].value
        /\ WritesOf("ac") = <<>>
           => \A i \in 1..Len(secretsSeen) :
                 (\A j \in (i + 1)..Len(secretsSeen) :
                     ~SameNormalizedName(secretsSeen[i].name, secretsSeen[j].name))
                 => \E key \in DOMAIN env :
                       /\ IsNormalizedName(secretsSeen[i].name, key)
                       /\ env[key] = secretsSeen[i].value

C7_Witness ==
    /\ pc = "appconfig"
    /\ ~remoteFailed
    /\ Len(secretsSeen) = 2
    /\ secretsSeen[1] = [name |-> <<"A", "-", "B">>, value |-> <<"s1">>]
    /\ secretsSeen[2] = [name |-> A_B, value |-> <<"s2">>]
    /\ env[A_B] = <<"s2">>

----------------------------------------------------------------------------
(* C8: with both stores configured the secrets are populated before the       *)
(* settings: no secret is assigned after a setting, and a key that both       *)
(* sources produce ends with the config store's value.                        *)
C8_ConfigStoreOverridesSecrets ==
    /\ \A i, j \in 1..Len(written) :
          (written[i].src = "ac" /\ written[j].src = "kv") => i > j
    /\ pc = "kv_loop" => (settingsSeen = <<>> /\ WritesOf("ac") = <<>>)
    /\ (PopulationCompleted /\ ~remoteFailed)
       => \A i \in 1..Len(secretsSeen), j \in 1..Len(settingsSeen) :
             (/\ IsNormalizedName(secretsSeen[i].name, settingsSeen[j].key)
              /\ IsLastForKey(settingsSeen, j))
             => Get(env, settingsSeen[j].key) = settingsSeen[j].value

C8_Witness ==
    /\ variant = "V1"
    /\ PopulationCompleted
    /\ Len(secretsSeen) = 1
    /\ secretsSeen[1] = [name |-> <<"A", "-", "B">>, value |-> <<"s1">>]
    /\ Len(settingsSeen) = 1
    /\ settingsSeen[1] = [key |-> A_B, value |-> <<"c1">>]
    /\ env[A_B] = <<"c1">>

----------------------------------------------------------------------------
(* C9: a setting whose value is not valid JSON, or is JSON without a uri      *)
(* field, is not taken for a reference: no secret is fetched, the value is    *)
(* assigned as it is under the setting's key, and nothing is raised.          *)
C9_NonReferenceWrittenLiterally ==
    [][ (/\ variant = "V2"
         /\ pc = "ac_loop"
         /\ Len(settingsSeen') = Len(settingsSeen) + 1
         /\ IsNotReferenceValue(settingsSeen'[Len(settingsSeen')].value))
        => LET s == settingsSeen'[Len(settingsSeen')]
           IN  /\ ~IsKeyVaultReference(s.value)
               /\ \A c \in calls' \ calls : c[1] # "getSecret"
               /\ Get(env', s.key) = s.value
               /\ pc' # "rejected"
               /\ ~remoteFailed'
      ]_vars

----------------------------------------------------------------------------
(* C10: when a remote population step fails after k entries, process.env      *)
(* holds what those k entries assigned (nothing is rolled back) and every     *)
(* other key is as it was when the step began.                                *)
FailedStepWrites ==
    WritesOf(IF "error:KeyVault" \in log THEN "kv" ELSE "ac")

C10_PartialPopulationKept ==
    remoteFailed
    => LET w == FailedStepWrites
           keys == (DOMAIN env) \cup (DOMAIN envAtStep) \cup
                   {w[i].key : i \in 1..Len(w)}
       IN  \A k \in keys :
              IF \E i \in 1..Len(w) : w[i].key = k
              THEN \E i \in 1..Len(w) :
                      /\ w[i].key = k
                      /\ \A h \in (i + 1)..Len(w) : w[h].key # k
                      /\ Get(env, k) = w[i].value
              ELSE Get(env, k) = Get(envAtStep, k)

C10_Witness ==
    /\ remoteFailed
    /\ "error:AppConfiguration" \in log
    /\ Len(settingsSeen) = 1
    /\ Len(written) = 1
    /\ env # envAtStep
    /\ Get(env, written[1].key) = written[1].value

====
